---------------------------- MODULE Spec2Model ----------------------------
(***************************************************************************)
(* Model of block_evaluated_filter.py: the Block partition / reassembly    *)
(* geometry (clip_to_block, block_to_clip), the optional deblock pass, and *)
(* the per-block, per-frame evaluators of class Filter.                    *)
(*                                                                         *)
(* A clip is a record [color_family, bits, frames]; a frame is a sequence  *)
(* of rows, a row a sequence of samples.  The VapourSynth primitives the   *)
(* source calls (std.AddBorders, std.CropRel, std.StackHorizontal, ...)    *)
(* are modelled by what they do to the frames of a clip.                   *)
(***************************************************************************)
EXTENDS Integers, Sequences, FiniteSets, TLC

VARIABLES pc, clip, filtered_clip, opts, block, work, final

vars == <<pc, clip, filtered_clip, opts, block, work, final>>

(* ----------------------------- bounds --------------------------------- *)
\* largest clip width / height
MaxDim == 4
\* largest block size
MaxBlk == 4
\* largest number of frames of a clip
MaxFrames == 2

None == [none |-> TRUE]

(* ------------------------ frames and clips ---------------------------- *)
\* the sample value of black, the colour std.AddBorders pads with by default
Black == 0

Peak(bits) == 2 ^ bits - 1

MidRange(bits) == 2 ^ (bits - 1)

Width(f) == Len(f[1])

Height(f) == Len(f)

num_frames(c) == Len(c.frames)

VsError == [error |-> "vs.Error"]

IsError(c) == "error" \in DOMAIN c

\* std.AddBorders(clip, right=..., bottom=...): new samples are black
AddBorders(c, right, bottom) ==
    [c EXCEPT !.frames = [n \in 1..Len(c.frames) |->
        LET f == c.frames[n]
        IN  [i \in 1..(Height(f) + bottom) |->
                [j \in 1..(Width(f) + right) |->
                    IF i <= Height(f) /\ j <= Width(f) THEN f[i][j] ELSE Black]]]]

\* std.CropRel: fails when nothing would be left of the frame
CropRel(c, left, right, top, bottom) ==
    IF IsError(c) THEN c
    ELSE IF Width(c.frames[1]) - left - right <= 0
            \/ Height(c.frames[1]) - top - bottom <= 0 THEN VsError
    ELSE [c EXCEPT !.frames = [n \in 1..Len(c.frames) |->
        LET f == c.frames[n]
        IN  [i \in 1..(Height(f) - top - bottom) |->
                [j \in 1..(Width(f) - left - right) |-> f[top + i][left + j]]]]]

\* std.StackHorizontal([x, y]): the clips must agree in height and format
StackHorizontal(x, y) ==
    IF IsError(x) THEN x
    ELSE IF IsError(y) THEN y
    ELSE IF Height(x.frames[1]) # Height(y.frames[1]) \/ x.bits # y.bits THEN VsError
    ELSE [x EXCEPT !.frames =
            [n \in 1..Len(x.frames) |->
                [i \in 1..Height(x.frames[n]) |-> x.frames[n][i] \o y.frames[n][i]]]]

\* std.StackVertical([x, y]): the clips must agree in width and format
StackVertical(x, y) ==
    IF IsError(x) THEN x
    ELSE IF IsError(y) THEN y
    ELSE IF Width(x.frames[1]) # Width(y.frames[1]) \/ x.bits # y.bits THEN VsError
    ELSE [x EXCEPT !.frames = [n \in 1..Len(x.frames) |-> x.frames[n] \o y.frames[n]]]

\* functools.reduce(lambda x, y: core.std.StackHorizontal([x, y]), row): a left
\* fold over the first k blocks of a non-empty row
RECURSIVE ReduceHorizontal(_, _)
ReduceHorizontal(row, k) ==
    IF k = 1 THEN row[1] ELSE StackHorizontal(ReduceHorizontal(row, k - 1), row[k])

\* functools.reduce(lambda x, y: core.std.StackVertical([x, y]), rows)
RECURSIVE ReduceVertical(_, _)
ReduceVertical(rows, k) ==
    IF k = 1 THEN rows[1] ELSE StackVertical(ReduceVertical(rows, k - 1), rows[k])

(* --------------------------- clip_to_block ---------------------------- *)
\* mutant: no padding when the dimension divides evenly
PadAmountModular(dim, blksize) == (blksize - (dim % blksize)) % blksize

PadAmount(dim, blksize) == blksize - (dim % blksize)

\* the while loop of cut_row / cut_column: a low cursor advancing from 0 and
\* a mirrored cursor retreating from len - blksize, one crop per step
RECURSIVE CutSweep(_, _, _, _)
CutSweep(low, high, len, blksize) ==
    IF low <= len /\ high >= 0
    THEN <<<<low, high>>>> \o CutSweep(low + blksize, high - blksize, len, blksize)
    ELSE <<>>

cut_row(src, h, blksize) ==
    LET sweep == CutSweep(0, h - blksize, h, blksize)
    IN  [k \in 1..Len(sweep) |-> CropRel(src, 0, 0, sweep[k][1], sweep[k][2])]

\* mutant: the two cursors handed to CropRel the wrong way round
cut_column_mirrored(row, w, blksize) ==
    LET sweep == CutSweep(0, w - blksize, w, blksize)
    IN  [k \in 1..Len(sweep) |-> CropRel(row, sweep[k][2], sweep[k][1], 0, 0)]

cut_column(row, w, blksize) ==
    LET sweep == CutSweep(0, w - blksize, w, blksize)
    IN  [k \in 1..Len(sweep) |-> CropRel(row, sweep[k][1], sweep[k][2], 0, 0)]

\* Block.clip_to_block on a gray clip; the result is the Block object
clip_to_block(c, blksize) ==
    LET w0 == Width(c.frames[1])
        h0 == Height(c.frames[1])
        pad_right == PadAmount(w0, blksize)
        pad_bottom == PadAmount(h0, blksize)
        padded1 == IF pad_right = 0 THEN c ELSE AddBorders(c, pad_right, 0)
        clip_padded == IF pad_bottom = 0 THEN padded1 ELSE AddBorders(padded1, 0, pad_bottom)
        w == w0 + pad_right
        h == h0 + pad_bottom
        rows == cut_row(clip_padded, h, blksize)
    IN  [blocks |-> [r \in 1..Len(rows) |-> cut_column(rows[r], w, blksize)],
         blksize |-> blksize,
         pad_right |-> pad_right,
         pad_bottom |-> pad_bottom]

(* --------------------------- block_to_clip ---------------------------- *)
\* lines 95-96: every row stacked left to right, the rows top to bottom
StackBlocks(blocks) ==
    LET rows == [r \in 1..Len(blocks) |-> ReduceHorizontal(blocks[r], Len(blocks[r]))]
    IN  ReduceVertical(rows, Len(rows))

\* the sample draw_mask writes at boundary pixels
MaskValue == 255

\* draw_mask on the one-frame blank clip: i and j are the 0-based indices
draw_mask(f, blksize) ==
    [i \in 1..Height(f) |->
        [j \in 1..Width(f) |->
            IF (i - 1) % blksize = 0 \/ (j - 1) % blksize = 0 THEN MaskValue ELSE f[i][j]]]

\* std.BlankClip(clip, length=1): one black frame of the clip's format and size
BlankClip(c) ==
    [c EXCEPT !.frames =
        <<[i \in 1..Height(c.frames[1]) |-> [j \in 1..Width(c.frames[1]) |-> Black]]>>]

\* lines 118-120: the mask frame drawn once and repeated num_frames times
DeblockMask(c, blksize) ==
    LET blank == BlankClip(c)
        drawn == draw_mask(blank.frames[1], blksize)
    IN  [blank EXCEPT !.frames = [n \in 1..num_frames(c) |-> drawn]]

Abs(v) == IF v < 0 THEN 0 - v ELSE v

Sign(v) == IF v < 0 THEN 0 - 1 ELSE IF v > 0 THEN 1 ELSE 0

\* the std.Expr of minblur: 'x y - x z - * 0 < x x y - abs x z - abs < y z ? ?'
\* (Expr evaluates in floating point: the product is taken of the signs, which
\* has the sign of the product and cannot overflow)
\* mutant: the comparison of the two distances inverted
MinBlurExprFarther(x, y, z) ==
    IF Sign(x - y) * Sign(x - z) < 0 THEN x
    ELSE IF Abs(x - y) > Abs(x - z) THEN y ELSE z

MinBlurExpr(x, y, z) ==
    IF Sign(x - y) * Sign(x - z) < 0 THEN x
    ELSE IF Abs(x - y) < Abs(x - z) THEN y ELSE z

\* minblur(src), given the outputs blur1, blur2 of the two RemoveGrain kernels
minblur(src, blur1, blur2) ==
    [src EXCEPT !.frames =
        [n \in 1..Len(src.frames) |->
            [i \in 1..Height(src.frames[n]) |->
                [j \in 1..Width(src.frames[n]) |->
                    MinBlurExpr(src.frames[n][i][j], blur1.frames[n][i][j],
                                blur2.frames[n][i][j])]]]]

\* std.MaskedMerge on integer samples: a weighted sum of a and b by the mask
\* sample m, scaled by the sample depth
MaskedMergeSample(a, b, m, bits) ==
    a + (((b - a) * (IF m > 2 THEN m + 1 ELSE m) + 2 ^ (bits - 1)) \div (2 ^ bits))

MaskedMerge(a, b, mask) ==
    [a EXCEPT !.frames =
        [n \in 1..Len(a.frames) |->
            [i \in 1..Height(a.frames[n]) |->
                [j \in 1..Width(a.frames[n]) |->
                    MaskedMergeSample(a.frames[n][i][j], b.frames[n][i][j],
                                      mask.frames[n][i][j], a.bits)]]]]

\* Block.block_to_clip; blur1 and blur2 are read only when deblock is TRUE
block_to_clip(self, deblock, blur1, blur2) ==
    LET stacked == StackBlocks(self.blocks)
        deblocked == IF deblock /\ ~IsError(stacked)
                     THEN MaskedMerge(stacked, minblur(stacked, blur1, blur2),
                                      DeblockMask(stacked, self.blksize))
                     ELSE stacked
    IN  CropRel(deblocked, 0, self.pad_right, 0, self.pad_bottom)

(* ------------------------------ inputs -------------------------------- *)
SampleBits == {8, 16}

\* a frame whose samples are pairwise distinct, different for every frame n
RampFrame(w, h, n) == [i \in 1..h |-> [j \in 1..w |-> (i - 1) * w + j + (n - 1)]]

\* a frame whose samples all equal v
FlatFrame(w, h, v) == [i \in 1..h |-> [j \in 1..w |-> v]]

\* the clips of every format, length and size whose frames are ramps
RampClips ==
    { [color_family |-> cf, bits |-> b,
       frames |-> [n \in 1..len |-> RampFrame(w, h, n)]] :
        cf \in {"GRAY", "YUV"}, b \in SampleBits, len \in 1..MaxFrames,
        w \in 1..MaxDim, h \in 1..MaxDim }

\* the clips of every format, length and size whose samples are all mid-range
FlatClips ==
    { [color_family |-> cf, bits |-> b,
       frames |-> [n \in 1..len |-> FlatFrame(w, h, MidRange(b))]] :
        cf \in {"GRAY", "YUV"}, b \in SampleBits, len \in 1..MaxFrames,
        w \in 1..MaxDim, h \in 1..MaxDim }

IsGray(c) == c.color_family = "GRAY"

\* sample levels a smoothing kernel may return
KernelLevels(bits) == {0, MaxDim, Peak(bits)}

LevelClip(c, v) ==
    [c EXCEPT !.frames = [n \in 1..Len(c.frames) |->
        [i \in 1..Height(c.frames[n]) |-> [j \in 1..Width(c.frames[n]) |-> v]]]]

(* ======================= partition and reassembly ====================== *)
GridInit ==
    /\ pc = "start"
    /\ clip \in RampClips
    /\ opts \in [blksize : 1..MaxBlk]
    /\ filtered_clip = None
    /\ block = None
    /\ work = None
    /\ final = None

\* Block.clip_to_block(clip, blksize), lines 12-57
ClipToBlock ==
    /\ pc = "start"
    /\ IF ~IsGray(clip)
       THEN /\ pc' = "ValueError"
            /\ block' = block
       ELSE /\ pc' = "blocks"
            /\ block' = clip_to_block(clip, opts.blksize)
    /\ UNCHANGED <<clip, filtered_clip, opts, work, final>>

\* block_to_clip(blocks, deblock=False), lines 87-96 and 125-129
BlockToClip ==
    /\ pc = "blocks"
    /\ final' = block_to_clip(block, FALSE, None, None)
    /\ work' = [deblock |-> FALSE]
    /\ pc' = "clip"
    /\ UNCHANGED <<clip, filtered_clip, opts, block>>

\* block_to_clip(blocks, deblock=True), lines 87-129; y and z are the levels
\* the two RemoveGrain kernels return
BlockToClipDeblock ==
    /\ pc = "blocks"
    /\ \E y \in KernelLevels(clip.bits), z \in KernelLevels(clip.bits) :
        LET stacked == StackBlocks(block.blocks)
            blur1 == LevelClip(stacked, y)
            blur2 == LevelClip(stacked, z)
        IN  /\ final' = block_to_clip(block, TRUE, blur1, blur2)
            /\ work' = [deblock |-> TRUE,
                        clip |-> stacked,
                        blur1 |-> blur1,
                        blur2 |-> blur2,
                        blur_clip |-> minblur(stacked, blur1, blur2),
                        deblock_mask |-> DeblockMask(stacked, block.blksize)]
    /\ pc' = "clip"
    /\ UNCHANGED <<clip, filtered_clip, opts, block>>

GridNext == ClipToBlock \/ BlockToClip \/ BlockToClipDeblock

SpecGrid == GridInit /\ [][GridNext]_vars

(* ============================ blend mode =============================== *)
\* zip(a, b) of two sequences: as long as the shorter one
Zip(a, b) ==
    [k \in 1..(IF Len(a) <= Len(b) THEN Len(a) ELSE Len(b)) |-> <<a[k], b[k]>>]

\* the clip std.FrameEval(clip, ..., prop_src=...) returns for one block: it has
\* the format and size of the clip block, and its samples are the std.Merge
\* of the clip block's and the filtered block's samples
FrameEvalMerge(clipblk, filteredblk) ==
    [clipblk EXCEPT !.frames =
        [n \in 1..Len(clipblk.frames) |->
            [i \in 1..Height(clipblk.frames[n]) |->
                [j \in 1..Width(clipblk.frames[n]) |->
                    <<clipblk.frames[n][i][j], filteredblk.frames[n][i][j]>>]]]]

\* lines 193-196 and 233-237: the grids zipped row by row and block by block,
\* wrapped in a Block that is given the padding of the clip's partition
ZipBlocks(clip_blocks, filtered_blocks, blksize) ==
    LET rows == Zip(clip_blocks.blocks, filtered_blocks.blocks)
    IN  [blocks |-> [r \in 1..Len(rows) |->
                        LET pairs == Zip(rows[r][1], rows[r][2])
                        IN  [c \in 1..Len(pairs) |->
                                FrameEvalMerge(pairs[c][1], pairs[c][2])]],
         blksize |-> blksize,
         pad_right |-> clip_blocks.pad_right,
         pad_bottom |-> clip_blocks.pad_bottom]

\* the rows and blocks of grid a that grid b has too
TrimTo(a, b) ==
    [r \in 1..Len(Zip(a, b)) |-> [c \in 1..Len(Zip(a[r], b[r])) |-> a[r][c]]]

\* a filtered clip: the format and length of the clip, a size of its own
FilteredOf(c, w, h) ==
    [c EXCEPT !.frames = [n \in 1..Len(c.frames) |-> RampFrame(w, h, n + 1)]]

FilterInit ==
    /\ pc = "start"
    /\ clip \in { c \in RampClips : IsGray(c) }
    /\ \E w \in 1..MaxDim, h \in 1..MaxDim : filtered_clip = FilteredOf(clip, w, h)
    /\ opts \in [blksize : 1..MaxBlk]
    /\ block = None
    /\ work = None
    /\ final = None

\* Filter.luma_eval_filter, lines 169-198 (deblock and debug left False)
LumaEvalFilter ==
    /\ pc = "start"
    /\ LET clip_blocks == clip_to_block(clip, opts.blksize)
           filtered_clip_blocks == clip_to_block(filtered_clip, opts.blksize)
           final_blocks == ZipBlocks(clip_blocks, filtered_clip_blocks, opts.blksize)
           result == block_to_clip(final_blocks, FALSE, None, None)
       IN  /\ block' = final_blocks
           /\ final' = result
           /\ work' = [filter |-> "luma_eval_filter"]
           /\ pc' = IF IsError(result) THEN "vs.Error" ELSE "graph"
    /\ UNCHANGED <<clip, filtered_clip, opts>>

\* Filter.luma_complexity_eval_filter, lines 201-239: the mask is cut from the
\* edge mask of the filtered clip, whose samples are at level e
LumaComplexityEvalFilter ==
    /\ pc = "start"
    /\ \E e \in KernelLevels(filtered_clip.bits) :
        LET mask == LevelClip(filtered_clip, e)
            clip_blocks == clip_to_block(clip, opts.blksize)
            filtered_clip_blocks == clip_to_block(filtered_clip, opts.blksize)
            mask_blocks == clip_to_block(mask, opts.blksize)
            \* zip(clip_row, filtered_row, mask_row): the shortest of the three
            with_mask == [filtered_clip_blocks EXCEPT
                            !.blocks = TrimTo(@, mask_blocks.blocks)]
            final_blocks == ZipBlocks(clip_blocks, with_mask, opts.blksize)
            result == block_to_clip(final_blocks, FALSE, None, None)
        IN  /\ block' = final_blocks
            /\ final' = result
            /\ work' = [filter |-> "luma_complexity_eval_filter", mask |-> mask]
            /\ pc' = IF IsError(result) THEN "vs.Error" ELSE "graph"
    /\ UNCHANGED <<clip, filtered_clip, opts>>

FilterNext == LumaEvalFilter \/ LumaComplexityEvalFilter

SpecFilter == FilterInit /\ [][FilterNext]_vars

\* rows, columns and padding of the partition of clip c
GridShapeOf(c, blksize) ==
    LET b == clip_to_block(c, blksize)
    IN  <<Len(b.blocks), Len(b.blocks[1]), b.pad_right, b.pad_bottom>>

\* C5: when the grids zipped together differ in shape, the call fails with an
\* error instead of returning an output clip.
C5_MismatchFailsFast ==
    (/\ pc \in {"graph", "vs.Error"}
     /\ GridShapeOf(clip, opts.blksize) # GridShapeOf(filtered_clip, opts.blksize))
        => pc = "vs.Error"

(* ===================== per-block, per-frame evaluation ================= *)
\* A Python number: the rational num / den (den > 0, in lowest terms) and
\* whether it is a float or an int.
RECURSIVE GCD(_, _)
GCD(a, b) == IF b = 0 THEN a ELSE GCD(b, a % b)

Num(n, d, isfloat) ==
    LET g == GCD(Abs(n), d)
    IN  [num |-> n \div g, den |-> d \div g, float |-> isfloat]

PyInt(k) == Num(k, 1, FALSE)

PyFloat(n, d) == Num(n, d, TRUE)

Add(a, b) == Num(a.num * b.den + b.num * a.den, a.den * b.den, a.float \/ b.float)

Sub(a, b) == Num(a.num * b.den - b.num * a.den, a.den * b.den, a.float \/ b.float)

Mul(a, b) == Num(a.num * b.num, a.den * b.den, a.float \/ b.float)

Less(a, b) == a.num * b.den < b.num * a.den

LessEq(a, b) == a.num * b.den <= b.num * a.den

SameValue(a, b) == a.num * b.den = b.num * a.den

\* Python's min(a, b) and max(a, b): the first argument unless the second is
\* strictly smaller (larger)
PyMin(a, b) == IF Less(b, a) THEN b ELSE a

PyMax(a, b) == IF Less(a, b) THEN b ELSE a

\* Python's round(x) to an int: the nearest integer, a tie going to the even one
PyRound(a) ==
    LET lo == a.num \div a.den
        twice == 2 * (a.num - lo * a.den)
    IN  IF twice < a.den THEN PyInt(lo)
        ELSE IF twice > a.den THEN PyInt(lo + 1)
        ELSE IF lo % 2 = 0 THEN PyInt(lo) ELSE PyInt(lo + 1)

\* mutant: the two clamps the wrong way round
WeightOfMisclamped(x) == PyMin(PyMax(x, PyInt(1)), PyInt(0))

\* max(min(x, 1), 0) of lines 183, 222, 255, 297
WeightOf(x) == PyMax(PyMin(x, PyInt(1)), PyInt(0))

\* lines 183 and 255
LumaWeight(luma, o) == WeightOf(Add(Mul(luma, o.luma_weight), o.offset))

\* lines 222 and 297
LumaComplexityWeight(luma, complexity, o) ==
    WeightOf(Add(Add(Mul(luma, o.luma_weight),
                     Mul(Sub(PyInt(1), complexity), o.complexity_weight)),
                 o.offset))

\* lines 256 and 298
Inverted(weight, o) == IF o.para_is_invert = FALSE THEN weight ELSE Sub(PyInt(1), weight)

\* mutant: the interpolation started from the wrong end
ParameterOfReversed(weight, o) ==
    Add(o.para_max, Mul(weight, Sub(o.para_min, o.para_max)))

\* lines 257 and 299
ParameterOf(weight, o) ==
    Add(o.para_min, Mul(weight, Sub(o.para_max, o.para_min)))

\* What the filter function handed to an adjust filter does with a parameter:
\*   "any"          accepts every number;
\*   "int_only"     a VapourSynth filter with an integer argument: vs.Error on
\*                  a float, accepted on an int;
\*   "failing"      vs.Error whatever the parameter;
\*   "py_int_only"  a Python function that raises TypeError on a float.
FuncKinds == {"any", "int_only", "failing", "py_int_only"}

Func(kind, parameter) ==
    CASE kind = "any" -> "ok"
      [] kind = "int_only" -> IF parameter.float THEN "vs.Error" ELSE "ok"
      [] kind = "failing" -> "vs.Error"
      [] kind = "py_int_only" -> IF parameter.float THEN "TypeError" ELSE "ok"

\* mutant: the retry made with the parameter as it is
TryFuncUnrounded(kind, parameter) ==
    LET first == Func(kind, parameter)
    IN  IF first = "vs.Error"
        THEN [calls |-> <<parameter, parameter>>,
              outcomes |-> <<first, Func(kind, parameter)>>,
              result |-> Func(kind, parameter)]
        ELSE [calls |-> <<parameter>>, outcomes |-> <<first>>, result |-> first]

\* lines 259-262 and 301-304: try func(clip, parameter), and on vs.Error
\* func(clip, round(parameter)); calls are the parameters passed, outcomes what
\* each call did, result what process ends with
TryFunc(kind, parameter) ==
    LET first == Func(kind, parameter)
        second == Func(kind, PyRound(parameter))
    IN  IF first = "vs.Error"
        THEN [calls |-> <<parameter, PyRound(parameter)>>,
              outcomes |-> <<first, second>>,
              result |-> second]
        ELSE [calls |-> <<parameter>>, outcomes |-> <<first>>, result |-> first]

\* the body of process in luma_eval_adjust, lines 254-262
process_luma_eval_adjust(luma, o) ==
    LET clamped == LumaWeight(luma, o)
        weight == Inverted(clamped, o)
        parameter == ParameterOf(weight, o)
        tried == TryFunc(o.func, parameter)
    IN  [luma |-> luma, clamped |-> clamped, weight |-> weight,
         parameter |-> parameter, calls |-> tried.calls,
         outcomes |-> tried.outcomes, result |-> tried.result]

\* the body of process in luma_complexity_eval_adjust, lines 295-304
process_luma_complexity_eval_adjust(luma, complexity, o) ==
    LET clamped == LumaComplexityWeight(luma, complexity, o)
        weight == Inverted(clamped, o)
        parameter == ParameterOf(weight, o)
        tried == TryFunc(o.func, parameter)
    IN  [luma |-> luma, complexity |-> complexity, clamped |-> clamped,
         weight |-> weight, parameter |-> parameter, calls |-> tried.calls,
         outcomes |-> tried.outcomes, result |-> tried.result]

\* largest para_min / para_max
MaxPara == 3

\* values of a statistic (propAverage): 0, 1/2, 1 of an integer clip, and -1, 2
\* that only the mean of a float clip can take
Stats == {PyFloat(0 - 1, 1), PyFloat(0, 1), PyFloat(1, 2), PyFloat(1, 1), PyFloat(2, 1)}

MaskStats == {PyFloat(0, 1), PyFloat(1, 2), PyFloat(1, 1)}

LumaWeights == {PyFloat(0, 1), PyFloat(1, 2), PyFloat(1, 1)}

ComplexityWeights == {PyFloat(0, 1), PyFloat(1, 1)}

Offsets == {PyFloat(0 - 1, 2), PyFloat(0, 1), PyFloat(1, 2)}

ParaValues == { PyInt(k) : k \in 0..MaxPara }

FilterOpts ==
    [filter : {"luma_eval_filter"}, luma_weight : LumaWeights, offset : Offsets]
    \cup [filter : {"luma_complexity_eval_filter"}, luma_weight : LumaWeights,
          complexity_weight : ComplexityWeights, offset : Offsets]

AdjustOpts ==
    [filter : {"luma_eval_adjust"}, luma_weight : LumaWeights, offset : Offsets,
     para_min : ParaValues, para_max : ParaValues, para_is_invert : BOOLEAN,
     func : FuncKinds]
    \cup [filter : {"luma_complexity_eval_adjust"}, luma_weight : LumaWeights,
          complexity_weight : ComplexityWeights, offset : Offsets,
          para_min : ParaValues, para_max : ParaValues, para_is_invert : BOOLEAN,
          func : FuncKinds]

EvalInit ==
    /\ pc = "graph"
    /\ opts \in FilterOpts \cup AdjustOpts
    /\ clip = None
    /\ filtered_clip = None
    /\ block = None
    /\ work = None
    /\ final = None

\* process of luma_eval_filter, lines 181-189 (debug False)
ProcessLumaEvalFilter ==
    /\ pc = "graph"
    /\ opts.filter = "luma_eval_filter"
    /\ \E luma \in Stats :
        work' = [luma |-> luma, weight |-> LumaWeight(luma, opts), result |-> "ok"]
    /\ pc' = "evaluated"
    /\ UNCHANGED <<clip, filtered_clip, opts, block, final>>

\* process of luma_complexity_eval_filter, lines 219-228 (debug False)
ProcessLumaComplexityEvalFilter ==
    /\ pc = "graph"
    /\ opts.filter = "luma_complexity_eval_filter"
    /\ \E luma \in Stats, complexity \in MaskStats :
        work' = [luma |-> luma, complexity |-> complexity,
                 weight |-> LumaComplexityWeight(luma, complexity, opts),
                 result |-> "ok"]
    /\ pc' = "evaluated"
    /\ UNCHANGED <<clip, filtered_clip, opts, block, final>>

\* process of luma_eval_adjust, lines 253-267 (debug False)
ProcessLumaEvalAdjust ==
    /\ pc = "graph"
    /\ opts.filter = "luma_eval_adjust"
    /\ \E luma \in Stats : work' = process_luma_eval_adjust(luma, opts)
    /\ pc' = "evaluated"
    /\ UNCHANGED <<clip, filtered_clip, opts, block, final>>

\* process of luma_complexity_eval_adjust, lines 294-309 (debug False)
ProcessLumaComplexityEvalAdjust ==
    /\ pc = "graph"
    /\ opts.filter = "luma_complexity_eval_adjust"
    /\ \E luma \in Stats, complexity \in MaskStats :
        work' = process_luma_complexity_eval_adjust(luma, complexity, opts)
    /\ pc' = "evaluated"
    /\ UNCHANGED <<clip, filtered_clip, opts, block, final>>

EvalNext ==
    \/ ProcessLumaEvalFilter
    \/ ProcessLumaComplexityEvalFilter
    \/ ProcessLumaEvalAdjust
    \/ ProcessLumaComplexityEvalAdjust

SpecEval == EvalInit /\ [][EvalNext]_vars

(* ===================== pulling frames in adjust mode =================== *)
\* largest width / height of a clip whose frames are pulled
PullDim == 3
\* largest number of blocks of its grid
MaxBlocks == 4

\* para_max of luma_eval_adjust when the caller gives none
DefaultParaMax == 128

\* the keyword defaults of luma_eval_adjust, line 242, and a filter function
\* that accepts every parameter
DefaultAdjustOpts ==
    [filter |-> "luma_eval_adjust", luma_weight |-> PyFloat(1, 1),
     offset |-> PyFloat(0, 1), para_min |-> PyInt(0),
     para_max |-> PyInt(DefaultParaMax), para_is_invert |-> FALSE, func |-> "any"]

RECURSIVE SumRow(_, _)
SumRow(row, k) == IF k = 0 THEN 0 ELSE row[k] + SumRow(row, k - 1)

RECURSIVE SumFrame(_, _)
SumFrame(f, k) == IF k = 0 THEN 0 ELSE SumRow(f[k], Len(f[k])) + SumFrame(f, k - 1)

\* the propAverage std.PlaneStats attaches to frame n of an integer clip: the
\* mean of the samples divided by the peak value
PlaneStatsAverage(c, n) ==
    LET f == c.frames[n]
    IN  PyFloat(SumFrame(f, Len(f)), Height(f) * Width(f) * Peak(c.bits))

\* process_clip of luma_eval_adjust, lines 252-269: the FrameEval node of one
\* block, evaluated on the block and reading its properties from the block
process_clip(blk) == [clip |-> blk, prop_src |-> blk]

\* mutant: every node of a row reads the properties of the row's last block
FrameEvalNodesLateBound(clip_blocks) ==
    [r \in 1..Len(clip_blocks) |->
        [c \in 1..Len(clip_blocks[r]) |->
            [clip |-> clip_blocks[r][c],
             prop_src |-> clip_blocks[r][Len(clip_blocks[r])]]]]

\* line 271: one node per block, in grid order
FrameEvalNodes(clip_blocks) ==
    [r \in 1..Len(clip_blocks) |->
        [c \in 1..Len(clip_blocks[r]) |-> process_clip(clip_blocks[r][c])]]

\* std.FrameEval hands process the frame n of prop_src when frame n is pulled
PropSrcFrame(n) == n

\* frame n of the clip func(clip, parameter) returns: each sample stands for
\* what func makes of the block's sample with that parameter
FuncFrame(c, n, parameter) ==
    [i \in 1..Height(c.frames[n]) |->
        [j \in 1..Width(c.frames[n]) |-> <<c.frames[n][i][j], parameter>>]]

Idle == [stage |-> "idle"]

PullInit ==
    /\ pc = "start"
    /\ clip \in { c \in RampClips \cup { f \in FlatClips : num_frames(f) = 1 } :
                    /\ IsGray(c)
                    /\ c.bits = 8
                    /\ Width(c.frames[1]) <= PullDim
                    /\ Height(c.frames[1]) <= PullDim }
    /\ \E b \in 1..MaxBlk :
        /\ (Width(clip.frames[1]) + PadAmount(Width(clip.frames[1]), b))
             * (Height(clip.frames[1]) + PadAmount(Height(clip.frames[1]), b))
                <= MaxBlocks * b * b
        /\ opts = [DefaultAdjustOpts EXCEPT !.filter = "luma_eval_adjust"]
                    @@ [blksize |-> b]
    /\ filtered_clip = None
    /\ block = None
    /\ work = None
    /\ final = None

\* Filter.luma_eval_adjust, lines 242-275 (deblock and debug False): the graph
\* is built; no frame has been pulled yet
LumaEvalAdjust ==
    /\ pc = "start"
    /\ LET clip_blocks == clip_to_block(clip, opts.blksize)
       IN  block' = [clip_blocks EXCEPT !.blocks = FrameEvalNodes(@)]
    /\ work' = [n \in 1..num_frames(clip) |-> Idle]
    /\ final' = [n \in 1..num_frames(clip) |-> None]
    /\ pc' = "graph"
    /\ UNCHANGED <<clip, filtered_clip, opts>>

\* the consumer asks for output frame n: a request of its own for every block
RequestFrame(n) ==
    /\ pc = "graph"
    /\ work[n].stage \in {"idle", "delivered"}
    /\ work' = [work EXCEPT ![n] =
                    [stage |-> "requested",
                     blocks |-> [r \in 1..Len(block.blocks) |->
                                    [c \in 1..Len(block.blocks[r]) |-> None]]]]
    /\ final' = [final EXCEPT ![n] = None]
    /\ UNCHANGED <<pc, clip, filtered_clip, opts, block>>

\* block (r, c) of a requested frame n: FrameEval hands process the frame of
\* prop_src, and process (lines 253-267) computes the parameter and calls func
EvalBlock(n, r, c) ==
    /\ pc = "graph"
    /\ work[n].stage = "requested"
    /\ work[n].blocks[r][c] = None
    /\ LET node == block.blocks[r][c]
           luma == PlaneStatsAverage(node.prop_src, PropSrcFrame(n))
           done == process_luma_eval_adjust(luma, opts)
       IN  work' = [work EXCEPT ![n].blocks[r][c] = done]
    /\ UNCHANGED <<pc, clip, filtered_clip, opts, block, final>>

\* block_to_clip on the outputs of frame n (lines 95-96, 127), each the frame
\* n of the clip func returned for the block: the frame is handed to the
\* consumer once every block of it is there
DeliverFrame(n) ==
    /\ pc = "graph"
    /\ work[n].stage = "requested"
    /\ \A r \in 1..Len(block.blocks) : \A c \in 1..Len(block.blocks[r]) :
        work[n].blocks[r][c] # None
    /\ LET outputs == [block EXCEPT !.blocks =
                        [r \in 1..Len(block.blocks) |->
                            [c \in 1..Len(block.blocks[r]) |->
                                [color_family |-> clip.color_family,
                                 bits |-> clip.bits,
                                 frames |-> <<FuncFrame(block.blocks[r][c].clip, n,
                                                        work[n].blocks[r][c].parameter)>>]]]]
       IN  final' = [final EXCEPT ![n] =
                        block_to_clip(outputs, FALSE, None, None).frames[1]]
    /\ work' = [work EXCEPT ![n].stage = "delivered"]
    /\ UNCHANGED <<pc, clip, filtered_clip, opts, block>>

PullNext ==
    \/ LumaEvalAdjust
    \/ \E n \in 1..MaxFrames : n <= num_frames(clip) /\ RequestFrame(n)
    \/ \E n \in 1..MaxFrames, r \in 1..MaxBlocks, c \in 1..MaxBlocks :
        /\ pc = "graph"
        /\ n <= num_frames(clip)
        /\ r <= Len(block.blocks)
        /\ c <= Len(block.blocks[r])
        /\ EvalBlock(n, r, c)
    \/ \E n \in 1..MaxFrames : n <= num_frames(clip) /\ DeliverFrame(n)

SpecPull == PullInit /\ [][PullNext]_vars

(* ------------------- claims on partition and reassembly ---------------- *)
OrigWidth == Width(clip.frames[1])

OrigHeight == Height(clip.frames[1])

Ceil(a, b) == (a + b - 1) \div b

\* the sample of frame n at 1-based row i, column j of the padded clip
PaddedSample(n, i, j) ==
    IF i <= OrigHeight /\ j <= OrigWidth THEN clip.frames[n][i][j] ELSE Black

\* C1: partition followed by reassembly with deblock off and no per-block
\* change returns a clip of the original width and height whose every sample
\* equals the original sample at the same position, for every block size.
C1_RoundTrip ==
    (pc = "clip" /\ ~work.deblock) =>
        /\ ~IsError(final)
        /\ num_frames(final) = num_frames(clip)
        /\ \A n \in 1..num_frames(clip) :
            /\ Height(final.frames[n]) = OrigHeight
            /\ Width(final.frames[n]) = OrigWidth
            /\ \A i \in 1..OrigHeight, j \in 1..OrigWidth :
                final.frames[n][i][j] = clip.frames[n][i][j]

\* a round trip with a block size larger than the width that divides the height
C1_Witness ==
    /\ pc = "clip"
    /\ ~work.deblock
    /\ ~IsError(final)
    /\ opts.blksize > OrigWidth
    /\ OrigHeight > opts.blksize
    /\ OrigHeight % opts.blksize = 0
    /\ final.frames[1][OrigHeight][OrigWidth] # final.frames[1][1][1]

\* C2: the padding is B - (dim mod B), always in 1..B; the sweep emits
\* (dim + pad) / B blocks per axis, which is ceil(dim / B) plus one more when B
\* divides dim; every block is B x B and block (r, c) holds the samples of
\* the padded frame at rows (r-1)B+1..rB and columns (c-1)B+1..cB.
C2_GridShape ==
    (pc = "blocks") =>
        LET B == opts.blksize
            pr == block.pad_right
            pb == block.pad_bottom
        IN  /\ pr = B - (OrigWidth % B) /\ pr \in 1..B
            /\ pb = B - (OrigHeight % B) /\ pb \in 1..B
            /\ (OrigWidth + pr) % B = 0 /\ (OrigHeight + pb) % B = 0
            /\ Len(block.blocks) = (OrigHeight + pb) \div B
            /\ Len(block.blocks) =
                    Ceil(OrigHeight, B) + (IF OrigHeight % B = 0 THEN 1 ELSE 0)
            /\ \A r \in 1..Len(block.blocks) :
                /\ Len(block.blocks[r]) = (OrigWidth + pr) \div B
                /\ Len(block.blocks[r]) =
                        Ceil(OrigWidth, B) + (IF OrigWidth % B = 0 THEN 1 ELSE 0)
                /\ \A c \in 1..Len(block.blocks[r]) :
                    LET blk == block.blocks[r][c]
                    IN  /\ ~IsError(blk)
                        /\ \A n \in 1..num_frames(clip) :
                            /\ Height(blk.frames[n]) = B
                            /\ Width(blk.frames[n]) = B
                            /\ \A i \in 1..B, j \in 1..B :
                                blk.frames[n][i][j] =
                                    PaddedSample(n, (r - 1) * B + i, (c - 1) * B + j)
            \* width 256, block size 128: three columns
            /\ Len(CutSweep(0, 256 + PadAmount(256, 128) - 128,
                            256 + PadAmount(256, 128), 128)) = 3
            \* 130 x 130, block size 128: padding 126, a 2 x 2 grid
            /\ PadAmount(130, 128) = 126
            /\ Len(CutSweep(0, 130 + PadAmount(130, 128) - 128,
                            130 + PadAmount(130, 128), 128)) = 2

\* a partition whose block size divides the width but not the height
C2_Witness ==
    /\ pc = "blocks"
    /\ opts.blksize > 1
    /\ OrigWidth % opts.blksize = 0
    /\ OrigHeight % opts.blksize # 0
    /\ Len(block.blocks) = Ceil(OrigHeight, opts.blksize)
    /\ Len(block.blocks[1]) = (OrigWidth \div opts.blksize) + 1

\* C6: with deblock on, a pixel is marked in the mask iff its row or column
\* index is a multiple of the block size (28 of 64 for block size 4 on 8 x 8),
\* the mask is the same for every frame, and the output equals the smoothed
\* sample at marked pixels and the reassembled sample elsewhere.
C6_DeblockBoundaryOnly ==
    (pc = "clip" /\ work.deblock) =>
        LET B == opts.blksize
            mask == work.deblock_mask
            Boundary(i, j) == (i - 1) % B = 0 \/ (j - 1) % B = 0
        IN  /\ ~IsError(final)
            /\ \A n \in 1..num_frames(clip) :
                /\ mask.frames[n] = mask.frames[1]
                /\ \A i \in 1..Height(mask.frames[n]), j \in 1..Width(mask.frames[n]) :
                    (mask.frames[n][i][j] # Black) <=> Boundary(i, j)
                /\ \A i \in 1..OrigHeight, j \in 1..OrigWidth :
                    final.frames[n][i][j] =
                        IF Boundary(i, j) THEN work.blur_clip.frames[n][i][j]
                        ELSE work.clip.frames[n][i][j]
            /\ (B = 4 /\ Height(mask.frames[1]) = 8 /\ Width(mask.frames[1]) = 8) =>
                Cardinality({ p \in (1..8) \X (1..8) :
                                mask.frames[1][p[1]][p[2]] # Black }) = 28

\* the deblock property on 8-bit clips, where the mask value 255 is the peak
DeblockBoundaryOnly8 == (clip.bits = 8) => C6_DeblockBoundaryOnly

\* C9: the smoothed sample is x when x - y and x - z have opposite signs and
\* otherwise the one of y, z closer to x; so it is always one of x, y, z and
\* is x whenever x equals y or z.
C9_MinBlurRule ==
    (pc = "clip" /\ work.deblock) =>
        \A n \in 1..num_frames(work.clip) :
            \A i \in 1..Height(work.clip.frames[n]), j \in 1..Width(work.clip.frames[n]) :
                LET x == work.clip.frames[n][i][j]
                    y == work.blur1.frames[n][i][j]
                    z == work.blur2.frames[n][i][j]
                    res == work.blur_clip.frames[n][i][j]
                    opposite == (x < y /\ x > z) \/ (x > y /\ x < z)
                IN  /\ opposite => res = x
                    /\ ~opposite =>
                        /\ res \in {y, z}
                        /\ Abs(x - res) <= Abs(x - y)
                        /\ Abs(x - res) <= Abs(x - z)
                    /\ res \in {x, y, z}
                    /\ (x = y \/ x = z) => res = x

\* a deblocked frame with a sample kept because it lies between the two
\* smoothed values, and a sample replaced by the closer of the two
C9_Witness ==
    /\ pc = "clip"
    /\ work.deblock
    /\ \E i \in 1..Height(work.clip.frames[1]), j \in 1..Width(work.clip.frames[1]) :
        LET x == work.clip.frames[1][i][j]
        IN  /\ work.blur2.frames[1][i][j] < x
            /\ x < work.blur1.frames[1][i][j]
            /\ work.blur_clip.frames[1][i][j] = x
    /\ \E i \in 1..Height(work.clip.frames[1]), j \in 1..Width(work.clip.frames[1]) :
        LET x == work.clip.frames[1][i][j]
            y == work.blur1.frames[1][i][j]
            z == work.blur2.frames[1][i][j]
        IN  /\ x < z /\ z < y
            /\ work.blur_clip.frames[1][i][j] = z

(* ------------------------ claims on evaluation ------------------------- *)
IsAdjust == opts.filter \in {"luma_eval_adjust", "luma_complexity_eval_adjust"}

HasComplexity ==
    opts.filter \in {"luma_complexity_eval_filter", "luma_complexity_eval_adjust"}

\* luma * luma_weight + (1 - complexity) * complexity_weight + offset, the
\* complexity term absent in the luma-only filters
LinearCombination ==
    IF HasComplexity
    THEN Add(Add(Mul(work.luma, opts.luma_weight),
                 Mul(Sub(PyInt(1), work.complexity), opts.complexity_weight)),
             opts.offset)
    ELSE Add(Mul(work.luma, opts.luma_weight), opts.offset)

\* the clamped weight of the evaluation (in adjust mode before the inversion)
ClampedWeight == IF IsAdjust THEN work.clamped ELSE work.weight

C7_WeightClamped ==
    /\ (pc = "evaluated") =>
        LET x == LinearCombination
            w == ClampedWeight
        IN  /\ LessEq(PyInt(0), w) /\ LessEq(w, PyInt(1))
            /\ Less(x, PyInt(0)) => SameValue(w, PyInt(0))
            /\ Less(PyInt(1), x) => SameValue(w, PyInt(1))
            /\ (LessEq(PyInt(0), x) /\ LessEq(x, PyInt(1))) => SameValue(w, x)
    /\ LET o == [luma_weight |-> PyFloat(1, 1), offset |-> PyFloat(0, 1)]
       IN  /\ SameValue(LumaWeight(PyFloat(2, 1), o), PyInt(1))
           /\ SameValue(LumaWeight(PyFloat(0 - 1, 1), o), PyInt(0))
           /\ SameValue(LumaWeight(PyFloat(1, 2), o), PyFloat(1, 2))

\* a blend-mode evaluation with both statistics whose combination lies above 1
C7_Witness ==
    /\ pc = "evaluated"
    /\ opts.filter = "luma_complexity_eval_filter"
    /\ Less(PyInt(1), LinearCombination)
    /\ Less(PyInt(0), Mul(Sub(PyInt(1), work.complexity), opts.complexity_weight))
    /\ SameValue(work.weight, PyInt(1))

\* the interpolation part of C8: the parameter of the first call is para_min +
\* w * (para_max - para_min), w the clamped weight or, inverted, 1 minus it
ParameterInterpolated ==
    LET w == IF opts.para_is_invert THEN Sub(PyInt(1), work.clamped) ELSE work.clamped
    IN  /\ work.calls[1] = work.parameter
        /\ SameValue(work.parameter,
                     Add(opts.para_min, Mul(w, Sub(opts.para_max, opts.para_min))))
        /\ SameValue(work.clamped, PyInt(0)) =>
            SameValue(work.parameter,
                      IF opts.para_is_invert THEN opts.para_max ELSE opts.para_min)
        /\ SameValue(work.clamped, PyInt(1)) =>
            SameValue(work.parameter,
                      IF opts.para_is_invert THEN opts.para_min ELSE opts.para_max)

\* C8 as stated: the parameter is interpolated and lies in [para_min, para_max]
\* for every input.
C8_ParameterInRange ==
    (pc = "evaluated" /\ IsAdjust) =>
        /\ ParameterInterpolated
        /\ LessEq(opts.para_min, work.parameter)
        /\ LessEq(work.parameter, opts.para_max)

\* C8 amended: the parameter is interpolated and lies between para_min and
\* para_max, that is in [para_min, para_max] when para_min <= para_max and in
\* [para_max, para_min] when para_min > para_max.
C8_ParameterBetween ==
    (pc = "evaluated" /\ IsAdjust) =>
        /\ ParameterInterpolated
        /\ LessEq(opts.para_min, opts.para_max) =>
            /\ LessEq(opts.para_min, work.parameter)
            /\ LessEq(work.parameter, opts.para_max)
        /\ Less(opts.para_max, opts.para_min) =>
            /\ LessEq(opts.para_max, work.parameter)
            /\ LessEq(work.parameter, opts.para_min)

\* an inverted evaluation whose clamped weight 0 gives para_max, above para_min
C8_Witness ==
    /\ pc = "evaluated"
    /\ IsAdjust
    /\ opts.para_is_invert
    /\ Less(opts.para_min, opts.para_max)
    /\ SameValue(work.clamped, PyInt(0))
    /\ SameValue(work.parameter, opts.para_max)

(* ----------------------- claims on pulled frames ----------------------- *)
\* the sum of the samples of block (r, c) of the padded frame n
BlockSum(n, r, c) ==
    LET B == opts.blksize
        region == [i \in 1..B |->
                    [j \in 1..B |-> PaddedSample(n, (r - 1) * B + i, (c - 1) * B + j)]]
    IN  SumFrame(region, B)

\* the mean of block (r, c) of frame n over the peak value
BlockStat(n, r, c) ==
    PyFloat(BlockSum(n, r, c), opts.blksize * opts.blksize * Peak(clip.bits))

\* what the default options make of a statistic in [0, 1]: para_max times it
BlockParameter(n, r, c) == Mul(BlockStat(n, r, c), PyInt(DefaultParaMax))

\* C4: for a frame whose samples all have the mid-range value, every block of
\* the grid, the padded ones of the right column and bottom row included, is
\* handed the same mid-range parameter.
C4_ConstantFrameSameParameter ==
    (pc = "graph") =>
        \A n \in 1..num_frames(clip) :
            (/\ work[n].stage = "delivered"
             /\ clip.frames[n] = FlatFrame(OrigWidth, OrigHeight, MidRange(clip.bits)))
            => \A r \in 1..Len(block.blocks) : \A c \in 1..Len(block.blocks[r]) :
                /\ work[n].blocks[r][c].calls[1] = work[n].blocks[1][1].calls[1]
                /\ SameValue(work[n].blocks[r][c].calls[1],
                             PyFloat(MidRange(clip.bits) * DefaultParaMax, Peak(clip.bits)))

=============================================================================
